---- MODULE Spec2Model ----
(***************************************************************************)
(* Model of the day-03 market analyst backend: the recommendation engine   *)
(* (ai_analyzer.py), the market data gateway (stock_data.py) and the       *)
(* SQLite time-series cache (database.py).                                 *)
(*                                                                         *)
(* Time is counted in ticks; TicksPerDay ticks make one calendar day, so   *)
(* a datetime is a tick number and its date() is tick \div TicksPerDay.    *)
(* Confidence values are kept in tenths of a percent (33.3 -> 333).        *)
(***************************************************************************)
EXTENDS Integers, Sequences, FiniteSets, TLC

VARIABLES
    analysis,        \* arguments handed to _generate_recommendation
    recommendation,  \* dict returned by _generate_recommendation (or NoRec)
    now,             \* datetime.now(), in ticks
    api_key,         \* StockDataFetcher.api_key is set (truthy)
    historical_data, \* table historical_data: set of rows [symbol, date, close]
    stock_data,      \* table stock_data: rows in insertion (autoincrement id) order
    fetch_tracking,  \* table fetch_tracking: symbol -> row (or NoRow)
    ret,             \* the last gateway call and what it returned
    conn,            \* StockDatabase.conn, the one connection all threads share
    upsert,          \* a thread inside store_historical_data, statement by statement
    seen,            \* what a reader thread's cache get returned
    bulk,            \* position of a running bulk_fetch_and_store
    report,          \* ChatbotAPI.analyze_stock: its position and what it returned
    articles,        \* the news articles handed to the sentiment analysis
    sentiment,       \* the dict the sentiment analysis returned (or NoSummary)
    closes,          \* the closes of the price series handed to the analyzer
    parts            \* what the analyzer's steps returned for it (or NoParts)

vars == <<analysis, recommendation, now, api_key, historical_data,
          stock_data, fetch_tracking, ret, conn, upsert, seen, bulk, report,
          articles, sentiment, closes, parts>>

recVars == <<analysis, recommendation, closes, parts>>
gwVars == <<now, api_key, historical_data, stock_data, fetch_tracking, ret>>
\* state the gateway calls made one at a time never touch
newsVars == <<articles, sentiment>>
sideVars == <<conn, upsert, seen, articles, sentiment>>
\* the callers of the gateway
callerVars == <<bulk, report>>

(***************************************************************************)
(* Recommendation engine: StockAIAnalyzer._generate_recommendation         *)
(***************************************************************************)

NoRec == [kind |-> "none"]
NoValue == -1

\* RSI values on both sides of the two thresholds, and None (a value that
\* cannot be compared with a number, which makes `rsi < 30` raise).
RsiValues == {20, 29, 30, 50, 70, 71, 85}
MacdValues == {-1, 0, 1}
TrendLabels == {"bullish", "bearish", "sideways", "insufficient_data", "unknown"}
SentimentLabels == {"positive", "negative", "neutral"}
RiskLevels == {"high", "medium", "low", "unknown"}

AnalysisInputs ==
    [has_indicators : BOOLEAN,
     rsi : RsiValues \cup {NoValue},
     macd : MacdValues,
     macd_signal : {0},
     trend : TrendLabels,
     overall_sentiment : SentimentLabels,
     risk_level : RiskLevels]

\* The comparison `rsi < 30` raises TypeError when rsi is not a number.
Raises(a) == a.has_indicators /\ a.rsi = NoValue

RsiStep(a) ==
    IF ~a.has_indicators THEN [d |-> 0, f |-> <<>>]
    ELSE IF a.rsi < 30 THEN [d |-> 2, f |-> <<"RSI oversold (bullish)">>]
    ELSE IF a.rsi > 70 THEN [d |-> -2, f |-> <<"RSI overbought (bearish)">>]
    ELSE [d |-> 0, f |-> <<>>]

MacdStepSwapped(a) ==
    IF ~a.has_indicators THEN [d |-> 0, f |-> <<>>]
    ELSE IF a.macd >= a.macd_signal THEN [d |-> 1, f |-> <<"MACD bullish crossover">>]
    ELSE [d |-> -1, f |-> <<"MACD bearish crossover">>]

MacdStep(a) ==
    IF ~a.has_indicators THEN [d |-> 0, f |-> <<>>]
    ELSE IF a.macd > a.macd_signal THEN [d |-> 1, f |-> <<"MACD bullish crossover">>]
    ELSE [d |-> -1, f |-> <<"MACD bearish crossover">>]

TrendStep(a) ==
    IF a.trend = "bullish" THEN [d |-> 2, f |-> <<"Strong bullish trend">>]
    ELSE IF a.trend = "bearish" THEN [d |-> -2, f |-> <<"Strong bearish trend">>]
    ELSE [d |-> 0, f |-> <<>>]

NewsStep(a) ==
    IF a.overall_sentiment = "positive" THEN [d |-> 1, f |-> <<"Positive news sentiment">>]
    ELSE IF a.overall_sentiment = "negative" THEN [d |-> -1, f |-> <<"Negative news sentiment">>]
    ELSE [d |-> 0, f |-> <<>>]

RiskStep(a) ==
    IF a.risk_level = "high" THEN [d |-> -1, f |-> <<"High volatility risk">>]
    ELSE [d |-> 0, f |-> <<>>]

\* score and factors as accumulated by lines 363-406
Score(a) == RsiStep(a).d + MacdStep(a).d + TrendStep(a).d + NewsStep(a).d + RiskStep(a).d
Factors(a) == RsiStep(a).f \o MacdStep(a).f \o TrendStep(a).f \o NewsStep(a).f \o RiskStep(a).f

Abs(n) == IF n < 0 THEN -n ELSE n
Min(x, y) == IF x < y THEN x ELSE y

\* round(min(num / den * 100, cap), 1), in tenths of a percent
Confidence(num, den, cap) == Min((2 * num * 1000 + den) \div (2 * den), cap * 10)

TierOfLoose(score) ==
    IF score >= 3 THEN [recommendation |-> "strong_buy", action |-> "BUY", confidence |-> Confidence(score, 5, 95)]
    ELSE IF score >= 0 THEN [recommendation |-> "buy", action |-> "BUY", confidence |-> Confidence(score, 3, 80)]
    ELSE IF score <= -3 THEN [recommendation |-> "strong_sell", action |-> "SELL", confidence |-> Confidence(Abs(score), 5, 95)]
    ELSE IF score <= -1 THEN [recommendation |-> "sell", action |-> "SELL", confidence |-> Confidence(Abs(score), 3, 80)]
    ELSE [recommendation |-> "hold", action |-> "HOLD", confidence |-> 600]

TierOf(score) ==
    IF score >= 3 THEN [recommendation |-> "strong_buy", action |-> "BUY", confidence |-> Confidence(score, 5, 95)]
    ELSE IF score >= 1 THEN [recommendation |-> "buy", action |-> "BUY", confidence |-> Confidence(score, 3, 80)]
    ELSE IF score <= -3 THEN [recommendation |-> "strong_sell", action |-> "SELL", confidence |-> Confidence(Abs(score), 5, 95)]
    ELSE IF score <= -1 THEN [recommendation |-> "sell", action |-> "SELL", confidence |-> Confidence(Abs(score), 3, 80)]
    ELSE [recommendation |-> "hold", action |-> "HOLD", confidence |-> 600]

\* the dict built by the except branch, lines 439-445
ScoringFault ==
    [kind |-> "fault", recommendation |-> "hold", action |-> "HOLD",
     confidence |-> 500, error |-> TRUE]

generate_recommendation(a) ==
    IF Raises(a) THEN ScoringFault
    ELSE [kind |-> "scored",
          recommendation |-> TierOf(Score(a)).recommendation,
          action |-> TierOf(Score(a)).action,
          confidence |-> TierOf(Score(a)).confidence,
          score |-> Score(a),
          factors |-> Factors(a)]

\* The engine scores the arguments it was handed.
GenerateRecommendation ==
    /\ recommendation = NoRec
    /\ recommendation' = generate_recommendation(analysis)
    /\ UNCHANGED <<analysis, closes, parts>>
    /\ UNCHANGED gwVars
    /\ UNCHANGED sideVars
    /\ UNCHANGED callerVars

(***************************************************************************)
(* Bounds of the gateway and cache model                                   *)
(***************************************************************************)

TicksPerDay == 2      \* clock resolution: ticks in one calendar day
MaxDay == 2           \* the clock stops at the end of day MaxDay
MaxQuotes == 2        \* rows the stock_data table may hold
MaxPrice == 2         \* prices and closes are 1..MaxPrice
MaxFrame == 2         \* a source answers with bars of the MaxFrame latest dates

Symbols == {"AAPL", "MSFT"}
Dates == 0..MaxDay
Prices == 1..MaxPrice
LastTick == (MaxDay + 1) * TicksPerDay - 1
Ticks == 0..LastTick

date(t) == t \div TicksPerDay          \* datetime.date()
midnight(d) == d * TicksPerDay         \* a DATE read back as a datetime
today == date(now)

Never == -1
NoRow == [present |-> FALSE]

(***************************************************************************)
(* Series: a DataFrame is a sequence of bars in index order                *)
(***************************************************************************)

Bar(d, c) == [date |-> d, close |-> c]
DatesOf(df) == {df[i].date : i \in 1..Len(df)}
BarsOf(df) == {df[i] : i \in 1..Len(df)}

RECURSIVE OrderByDate(_)
\* ORDER BY date over a set of rows, projected to bars
OrderByDate(rows) ==
    IF rows = {} THEN <<>>
    ELSE LET r == CHOOSE x \in rows : \A y \in rows : x.date <= y.date
         IN <<Bar(r.date, r.close)>> \o OrderByDate(rows \ {r})

\* every DataFrame a source can answer with on a given day: bars for any
\* set of the latest dates up to that day, in date order
Frames(day) ==
    UNION {{OrderByDate({[date |-> d, close |-> f[d]] : d \in D}) : f \in [D -> Prices]}
           : D \in SUBSET {d \in Dates : day - MaxFrame < d /\ d <= day}}

(***************************************************************************)
(* StockDatabase (database.py)                                             *)
(***************************************************************************)

\* the three tables as one value, so that a handler can roll back
Db == [historical_data |-> historical_data,
       stock_data |-> stock_data,
       fetch_tracking |-> fetch_tracking]

\* _update_fetch_tracking: INSERT OR REPLACE deletes the symbol's row and
\* inserts a new one; columns not listed take their defaults (NULL).
update_fetch_tracking(db, symbol) ==
    [db EXCEPT !.fetch_tracking[symbol] =
        [present |-> TRUE,
         last_fetch_date |-> now,
         last_historical_date |-> Never,
         fetch_count |-> (IF @.present THEN @.fetch_count ELSE 0) + 1]]

\* the row INSERTed by store_stock_data
StockRow(db, symbol, data) ==
    [id |-> Len(db.stock_data) + 1, symbol |-> symbol, price |-> data.price,
     timestamp |-> data.timestamp, data_source |-> data.source]

\* an except branch that does not roll back: what was written stays
KeepWritten(committed, written) == written

\* self.conn.rollback(): the connection goes back to the last commit, and
\* whatever the call wrote since then is dropped
Rollback(committed, written) == committed

\* the statements of store_stock_data, in order: the INSERT, the tracking
\* update, the commit
InsertQuote(db, symbol, data) ==
    [db EXCEPT !.stock_data = Append(@, StockRow(db, symbol, data))]

\* what store_stock_data has written when its statement number fail_at raises
QuoteWrites(db, symbol, data, fail_at) ==
    CASE fail_at = 1 -> db
      [] fail_at = 2 -> InsertQuote(db, symbol, data)
      [] OTHER -> update_fetch_tracking(InsertQuote(db, symbol, data), symbol)

\* a store that keeps one row per symbol (INSERT OR REPLACE keyed by symbol)
store_stock_data_replacing(db, symbol, data, fail_at) ==
    IF fail_at > 0 THEN Rollback(db, QuoteWrites(db, symbol, data, fail_at))
    ELSE update_fetch_tracking(
            [db EXCEPT !.stock_data =
                Append(SelectSeq(@, LAMBDA r : r.symbol # symbol),
                       StockRow(db, symbol, data))],
            symbol)

\* store_stock_data: INSERT a row, update fetch tracking, commit; on any
\* exception (statement fail_at raises; 0: none does) print, roll back and
\* return normally.
store_stock_data(db, symbol, data, fail_at) ==
    IF fail_at > 0 THEN Rollback(db, QuoteWrites(db, symbol, data, fail_at))
    ELSE update_fetch_tracking(InsertQuote(db, symbol, data), symbol)

\* an upsert written as "delete the row if it is there, else insert"
DeleteElseInsert(rows, symbol, bar) ==
    IF \E r \in rows : r.symbol = symbol /\ r.date = bar.date
    THEN {r \in rows : ~(r.symbol = symbol /\ r.date = bar.date)}
    ELSE rows \cup {[symbol |-> symbol, date |-> bar.date, close |-> bar.close]}

\* a plain INSERT into a table without the UNIQUE(symbol, date) constraint
InsertNoReplace(rows, symbol, bar) ==
    rows \cup {[symbol |-> symbol, date |-> bar.date, close |-> bar.close]}

\* INSERT OR REPLACE INTO historical_data under UNIQUE(symbol, date)
InsertOrReplace(rows, symbol, bar) ==
    {r \in rows : ~(r.symbol = symbol /\ r.date = bar.date)}
        \cup {[symbol |-> symbol, date |-> bar.date, close |-> bar.close]}

RECURSIVE InsertAll(_, _, _)
InsertAll(rows, symbol, df) ==
    IF df = <<>> THEN rows
    ELSE InsertAll(InsertOrReplace(rows, symbol, Head(df)), symbol, Tail(df))

\* the UPDATE of lines 218-224: it changes the tracking row of the symbol if
\* there is one, and no row otherwise
UpdateLastHistoricalDate(db, symbol, df) ==
    IF df # <<>> /\ db.fetch_tracking[symbol].present
    THEN [db EXCEPT !.fetch_tracking[symbol].last_historical_date = df[Len(df)].date]
    ELSE db

\* what store_historical_data has written when its statement number fail_at
\* raises: statement k is the INSERT of row k of df, the next one the UPDATE
\* and the one after it the commit
HistoryWrites(db, symbol, df, fail_at) ==
    LET n == Min(fail_at - 1, Len(df))
        inserted == [db EXCEPT !.historical_data = InsertAll(@, symbol, SubSeq(df, 1, n))]
    IN IF fail_at > Len(df) + 1 THEN UpdateLastHistoricalDate(inserted, symbol, df)
       ELSE inserted

\* store_historical_data: upsert every row of df, UPDATE the tracking row
\* (if one exists) with the last index date, commit; on any exception
\* (statement fail_at raises; 0: none does) print, roll back and return
\* normally.
store_historical_data(db, symbol, df, fail_at) ==
    IF fail_at > 0 THEN Rollback(db, HistoryWrites(db, symbol, df, fail_at))
    ELSE UpdateLastHistoricalDate(
            [db EXCEPT !.historical_data = InsertAll(@, symbol, df)], symbol, df)

\* get_last_historical_date: SELECT MAX(date) ... WHERE symbol = ?
get_last_historical_date(db, symbol) ==
    LET ds == {r.date : r \in {x \in db.historical_data : x.symbol = symbol}}
    IN IF ds = {} THEN Never ELSE CHOOSE d \in ds : \A e \in ds : e <= d

\* StockDatabase.get_historical_data(symbol, days): rows of the symbol with
\* date >= (now - days).date(), ORDER BY date
db_get_historical_data(db, symbol, days) ==
    OrderByDate({r \in db.historical_data :
                    r.symbol = symbol /\ r.date >= date(now - days * TicksPerDay)})

\* every stored bar of a symbol, in date order
StoredRows(rows, symbol) == OrderByDate({r \in rows : r.symbol = symbol})

RowsOf(db, symbol) == SelectSeq(db.stock_data, LAMBDA r : r.symbol = symbol)

\* get_latest_stock_data: ORDER BY timestamp DESC LIMIT 1. Rows with equal
\* timestamps come in an order SQLite does not fix: any of them may be first.
get_latest_stock_data(db, symbol) ==
    LET rows == {RowsOf(db, symbol)[i] : i \in 1..Len(RowsOf(db, symbol))}
    IN {r \in rows : \A q \in rows : q.timestamp <= r.timestamp}

(***************************************************************************)
(* Price sources (external collaborators) and their answers                *)
(***************************************************************************)

SourceFail == [ok |-> FALSE]
NoQuote == [price |-> 0, timestamp |-> Never, source |-> "none"]

\* GLOBAL_QUOTE answers: a price and, optionally, '07. latest trading day'
AlphaQuoteAnswers ==
    {SourceFail} \cup
    [ok : {TRUE}, price : Prices,
     last_trading_day : {Never} \cup {d \in Dates : today - 1 <= d /\ d <= today}]

\* chart meta answers: a price and, optionally, regularMarketTime
YahooQuoteAnswers ==
    {SourceFail} \cup
    [ok : {TRUE}, price : Prices,
     market_timestamp : {Never} \cup {t \in Ticks : now - TicksPerDay <= t /\ t <= now}]

\* _get_price_alpha_vantage, lines 97-121: the timestamp is the last
\* trading day combined with the current time of day, else now
get_price_alpha_vantage(answer) ==
    [price |-> answer.price,
     timestamp |-> IF answer.last_trading_day # Never
                   THEN midnight(answer.last_trading_day) + (now % TicksPerDay)
                   ELSE now,
     source |-> "Alpha Vantage"]

\* _get_price_free_api, lines 135-159: the timestamp is the market time if
\* the source gave one, else now
get_price_free_api(answer) ==
    [price |-> answer.price,
     timestamp |-> IF answer.market_timestamp # Never
                   THEN answer.market_timestamp
                   ELSE now,
     source |-> "Yahoo Finance"]

\* TIME_SERIES_DAILY answers: a failure, or a frame with at least one day
\* (with no day in the answer the assignment to df.columns, line 272, raises
\* like any other failure of the source)
AlphaHistoryAnswers == {SourceFail} \cup [ok : {TRUE}, df : Frames(today) \ {<<>>}]

\* chart answers: a failure, or a frame with at least one timestamp
YahooHistoryAnswers == {SourceFail} \cup [ok : {TRUE}, df : Frames(today) \ {<<>>}]

Periods == {"1d", "5d"}

\* _period_to_days
period_to_days(period) ==
    CASE period = "1d" -> 1
      [] period = "5d" -> 5
      [] period = "1mo" -> 30
      [] OTHER -> 30

\* _get_historical_alpha_vantage, lines 278-288: keep the rows whose index
\* (midnight of the bar's date) is >= now - days
get_historical_alpha_vantage(answer, period) ==
    SelectSeq(answer.df,
              LAMBDA b : midnight(b.date) >= now - period_to_days(period) * TicksPerDay)

\* _get_historical_free_api, lines 317-335
get_historical_free_api(answer, period) == answer.df

(***************************************************************************)
(* StockDataFetcher (stock_data.py)                                        *)
(***************************************************************************)

Flip(b) == 1 - b

\* the one source a call goes to, lines 65-69 and 226-229
SourceUsed == IF api_key THEN "Alpha Vantage" ELSE "Yahoo Finance"

Commit(db) ==
    /\ historical_data' = db.historical_data
    /\ stock_data' = db.stock_data
    /\ fetch_tracking' = db.fetch_tracking

\* the statement of a store that raises: none (0), or one of those it runs
QuoteFailPoints == 1..3
HistoryFailPoints(df) == 1..(Len(df) + 2)

\* the tables a store_stock_data call can leave: one value when no statement
\* raises, one for each statement that can raise otherwise
StoreQuoteOutcomes(symbol, data, write_fails) ==
    {store_stock_data(Db, symbol, data, fail_at) :
        fail_at \in IF write_fails THEN QuoteFailPoints ELSE {0}}

StoreHistoryOutcomes(symbol, df, write_fails) ==
    {store_historical_data(Db, symbol, df, fail_at) :
        fail_at \in IF write_fails THEN HistoryFailPoints(df) ELSE {0}}

WriteOutcome(stores, write_fails) ==
    IF ~stores THEN "none" ELSE IF write_fails THEN "failed" ELSE "ok"

\* get_real_time_price(symbol, store_in_db)
get_real_time_price(symbol, store_in_db, answer, write_fails) ==
    LET data == IF api_key THEN get_price_alpha_vantage(answer)
                           ELSE get_price_free_api(answer)
        stores == answer.ok /\ store_in_db
    IN /\ write_fails => stores
       /\ \E db \in (IF stores THEN StoreQuoteOutcomes(symbol, data, write_fails) ELSE {Db}) :
            Commit(db)
       /\ ret' = [flip |-> Flip(ret.flip), at |-> now, op |-> "getQuote",
                  symbol |-> symbol, period |-> "-", force_fetch |-> FALSE,
                  store_in_db |-> store_in_db,
                  calls |-> <<SourceUsed>>,
                  outcome |-> IF answer.ok THEN "ok" ELSE "error",
                  path |-> IF answer.ok THEN "fetch" ELSE "none",
                  write |-> WriteOutcome(stores, write_fails),
                  quote |-> IF answer.ok THEN data ELSE NoQuote,
                  series |-> <<>>]
       /\ UNCHANGED <<now, api_key>>
       /\ UNCHANGED recVars
       /\ UNCHANGED sideVars

GetQuote(symbols, stores) ==
    /\ Len(stock_data) < MaxQuotes
    /\ \E symbol \in symbols, store_in_db \in stores, write_fails \in BOOLEAN :
         \E answer \in (IF api_key THEN AlphaQuoteAnswers ELSE YahooQuoteAnswers) :
            get_real_time_price(symbol, store_in_db, answer, write_fails)
    /\ UNCHANGED callerVars

\* the cache test of get_historical_data, lines 215-223
CacheHit(db, symbol, period, force_fetch) ==
    /\ ~force_fetch
    /\ db_get_historical_data(db, symbol, period_to_days(period)) # <<>>
    /\ get_last_historical_date(db, symbol) # Never
    /\ (now - midnight(get_last_historical_date(db, symbol))) \div TicksPerDay < 1

\* StockDataFetcher.get_historical_data(symbol, period, force_fetch)
get_historical_data(symbol, period, force_fetch, answer, write_fails) ==
    LET days == period_to_days(period)
        cached == db_get_historical_data(Db, symbol, days)
        hit == CacheHit(Db, symbol, period, force_fetch)
        df == IF api_key THEN get_historical_alpha_vantage(answer, period)
                         ELSE get_historical_free_api(answer, period)
        fetched == ~hit /\ answer.ok
        stores == fetched /\ df # <<>>
        base == [flip |-> Flip(ret.flip), at |-> now, op |-> "getHistory",
                 symbol |-> symbol, period |-> period, force_fetch |-> force_fetch,
                 store_in_db |-> TRUE,
                 calls |-> IF hit THEN <<>> ELSE <<SourceUsed>>,
                 outcome |-> "ok", path |-> "cache", write |-> "none",
                 quote |-> NoQuote, series |-> cached]
    IN /\ write_fails => stores
       /\ hit => answer = SourceFail     \* no source is asked: one step per hit
       /\ \E db \in (IF stores THEN StoreHistoryOutcomes(symbol, df, write_fails) ELSE {Db}) :
            Commit(db)
       /\ ret' = IF hit THEN base
                 ELSE IF fetched
                 THEN [base EXCEPT !.path = "fetch", !.series = df,
                                   !.write = WriteOutcome(stores, write_fails)]
                 ELSE IF cached # <<>>
                 THEN [base EXCEPT !.path = "fallback"]
                 ELSE [base EXCEPT !.path = "none", !.outcome = "error"]
       /\ UNCHANGED <<now, api_key>>
       /\ UNCHANGED recVars
       /\ UNCHANGED sideVars

GetHistory(symbols, periods, forces) ==
    /\ \E symbol \in symbols, period \in periods, force_fetch \in forces :
         \E write_fails \in BOOLEAN :
            \E answer \in (IF api_key THEN AlphaHistoryAnswers ELSE YahooHistoryAnswers) :
                get_historical_data(symbol, period, force_fetch, answer, write_fails)
    /\ UNCHANGED callerVars

\* the wall clock advances, up to tick `last`
Tick(last) ==
    /\ now < last
    /\ now' = now + 1
    /\ UNCHANGED <<api_key, historical_data, stock_data, fetch_tracking, ret>>
    /\ UNCHANGED recVars
    /\ UNCHANGED sideVars
    /\ UNCHANGED callerVars

(***************************************************************************)
(* Multi-symbol fetch: get_multiple_stocks and bulk_fetch_and_store        *)
(***************************************************************************)

\* configuration value rate_limit_delay, in tenths of a second
RateLimitDelay == 2

\* called: an outbound call was made earlier in this run; waited: the time
\* slept since that call
IdleBulk == [pc |-> "idle", symbols |-> <<>>, i |-> 0, force_fetch |-> FALSE,
             results |-> <<>>, called |-> FALSE, waited |-> 0]

\* StockDatabase.get_symbols_to_fetch: the configured symbols never fetched
\* or last fetched before now - fetch_interval_minutes (an interval shorter
\* than a tick: every earlier tick is before the cutoff)
get_symbols_to_fetch(config) ==
    SelectSeq(config, LAMBDA s : ~fetch_tracking[s].present
                                  \/ fetch_tracking[s].last_fetch_date < now)

\* lines 362-369 and 181-182: the symbols of the run
StartBulk(config, force_fetch) ==
    LET symbols == IF force_fetch THEN config ELSE get_symbols_to_fetch(config)
    IN IF symbols = <<>> THEN IdleBulk
       ELSE [pc |-> "quote", symbols |-> symbols, i |-> 1, force_fetch |-> force_fetch,
             results |-> [k \in 1..Len(symbols) |-> FALSE],
             called |-> FALSE, waited |-> 0]

\* bulk_fetch_and_store(force_fetch) is called
BulkStart(config, forces) ==
    /\ bulk.pc = "idle"
    /\ \E force_fetch \in forces : bulk' = StartBulk(config, force_fetch)
    /\ bulk'.pc # "idle"
    /\ UNCHANGED <<report>>
    /\ UNCHANGED gwVars
    /\ UNCHANGED recVars
    /\ UNCHANGED sideVars

\* get_multiple_stocks, line 186: the quote of symbol i; results[i] tells
\* whether the dict returned has no 'error' key
BulkQuote ==
    /\ bulk.pc = "quote"
    /\ Len(stock_data) < MaxQuotes
    /\ \E write_fails \in BOOLEAN :
         \E answer \in (IF api_key THEN AlphaQuoteAnswers ELSE YahooQuoteAnswers) :
            /\ get_real_time_price(bulk.symbols[bulk.i], TRUE, answer, write_fails)
            /\ bulk' = [bulk EXCEPT !.pc = "sleep", !.results[bulk.i] = answer.ok,
                                    !.called = TRUE, !.waited = 0]
    /\ UNCHANGED <<report>>

\* get_multiple_stocks, line 188: time.sleep(rate_limit_delay), then the
\* next symbol; after the last one, the history loop of lines 373-378
BulkSleep ==
    /\ bulk.pc = "sleep"
    /\ bulk' = [bulk EXCEPT !.waited = @ + RateLimitDelay,
                            !.i = IF bulk.i < Len(bulk.symbols) THEN @ + 1 ELSE 1,
                            !.pc = IF bulk.i < Len(bulk.symbols) THEN "quote" ELSE "history"]
    /\ UNCHANGED <<report>>
    /\ UNCHANGED gwVars
    /\ UNCHANGED recVars
    /\ UNCHANGED sideVars

\* the position after turn i of the history loop
AfterHistory(called_source) ==
    IF bulk.i < Len(bulk.symbols)
    THEN [bulk EXCEPT !.i = @ + 1,
                      !.called = @ \/ called_source,
                      !.waited = IF called_source THEN 0 ELSE @]
    ELSE IdleBulk

\* bulk_fetch_and_store, lines 373-378: the history of symbol i, if its
\* quote came without error
BulkHistory ==
    /\ bulk.pc = "history"
    /\ IF bulk.results[bulk.i]
       THEN \E answer \in (IF api_key THEN AlphaHistoryAnswers ELSE YahooHistoryAnswers) :
              \E write_fails \in BOOLEAN :
                /\ get_historical_data(bulk.symbols[bulk.i], "5d", bulk.force_fetch,
                                       answer, write_fails)
                /\ bulk' = AfterHistory(ret'.calls # <<>>)
       ELSE /\ bulk' = AfterHistory(FALSE)
            /\ UNCHANGED gwVars
            /\ UNCHANGED recVars
            /\ UNCHANGED sideVars
    /\ UNCHANGED <<report>>

(***************************************************************************)
(* The orchestrator: ChatbotAPI.analyze_stock (chatbot_api.py), over       *)
(* DatabaseManager (db_manager.py) and StockAIAnalyzer.analyze_stock       *)
(***************************************************************************)

\* a 'recommendation' value: the analyzer's dict, a plain string, or no
\* such key; strings and missing keys carry no confidence
NoRecommendation == [action |-> "-", confidence |-> NoValue]
TextRecommendation(text) == [action |-> text, confidence |-> NoValue]

\* bars: the length of the history the call had (NoValue: none retrieved);
\* fetched: the call triggered fetch_data
NoReport == [pc |-> "idle", flip |-> 0, symbol |-> "-", fetched |-> FALSE,
             success |-> TRUE, error |-> "-", bars |-> NoValue,
             recommendation |-> NoRecommendation, confidence |-> NoValue]

\* _create_error_response, ai_analyzer.py lines 532-542
create_error_response(error_msg) ==
    [error |-> error_msg,
     recommendation |-> [action |-> "HOLD", confidence |-> 0]]

\* StockAIAnalyzer.analyze_stock, lines 39-82. The indicator, trend and
\* risk steps catch their own exceptions and hand their results (a) to
\* _generate_recommendation; step_raises: an exception escapes one of the
\* steps of lines 44-65 and reaches the except of line 81.
analyze_stock(price_data, a, step_raises) ==
    IF price_data = <<>> THEN create_error_response("No historical data available")
    ELSE IF step_raises THEN create_error_response("Analysis error")
    ELSE [error |-> "-",
          recommendation |-> [action |-> generate_recommendation(a).action,
                              confidence |-> generate_recommendation(a).confidence],
          confidence_score |-> generate_recommendation(a).confidence]

\* what the indicator, trend and risk steps can hand on: a strongly bullish
\* picture, and an RSI that is not a number
ChatAnalyses ==
    {[has_indicators |-> TRUE, rsi |-> r, macd |-> m, macd_signal |-> 0, trend |-> t,
      risk_level |-> "medium"] : <<r, m, t>> \in {<<20, 1, "bullish">>,
                                                  <<NoValue, 0, "sideways">>}}

\* DatabaseManager.get_stock_data(symbol, days), lines 157-176; raises: an
\* exception reaches the except of line 175
get_stock_data(symbol, days, raises) ==
    IF raises THEN [success |-> FALSE, historical_data |-> <<>>]
    ELSE [success |-> TRUE, historical_data |-> db_get_historical_data(Db, symbol, days)]

\* the days of history a request asks for
ChatDays == period_to_days("5d")

\* chatbot_api.py lines 86-151, from the stock_result the call ends with
Finish(symbol, fetched, stock_result, news, a, step_raises, chat_raises) ==
    LET base == [NoReport EXCEPT !.flip = Flip(report.flip), !.symbol = symbol,
                                 !.fetched = fetched]
        ai_result == analyze_stock(stock_result.historical_data,
                                   [has_indicators |-> a.has_indicators, rsi |-> a.rsi,
                                    macd |-> a.macd, macd_signal |-> a.macd_signal,
                                    trend |-> a.trend, overall_sentiment |-> news,
                                    risk_level |-> a.risk_level],
                                   step_raises)
    IN IF ~stock_result.success
       THEN [base EXCEPT !.success = FALSE, !.error = "Could not retrieve data"]
       ELSE IF stock_result.historical_data = <<>>
       THEN [base EXCEPT !.success = FALSE, !.error = "No historical data available",
                         !.bars = 0,
                         !.recommendation =
                             TextRecommendation("Unable to analyze - insufficient data")]
       ELSE IF chat_raises
       THEN [base EXCEPT !.success = FALSE, !.error = "exception",
                         !.bars = Len(stock_result.historical_data),
                         !.recommendation =
                             TextRecommendation("Error - cannot provide recommendation")]
       ELSE [base EXCEPT !.bars = Len(stock_result.historical_data),
                         !.error = ai_result.error,
                         !.recommendation = ai_result.recommendation,
                         !.confidence = IF "confidence_score" \in DOMAIN ai_result
                                        THEN ai_result.confidence_score ELSE 0]

\* the inputs of the steps after get_stock_data
Finishes(symbol, fetched, stock_result) ==
    {Finish(symbol, fetched, stock_result, news, a, step_raises, chat_raises) :
        news \in SentimentLabels, a \in ChatAnalyses,
        step_raises \in BOOLEAN, chat_raises \in BOOLEAN}

\* ChatbotAPI.analyze_stock(symbol, days) is called, lines 76-84: when
\* get_stock_data reports no success it calls fetch_data(), which runs
\* bulk_fetch_and_store() over the configured symbols
ChatAnalyze(symbols, config) ==
    /\ report.pc = "idle" /\ bulk.pc = "idle"
    /\ \E symbol \in symbols, raises \in BOOLEAN :
          LET stock_result == get_stock_data(symbol, ChatDays, raises)
          IN IF ~stock_result.success
             THEN /\ report' = [NoReport EXCEPT !.pc = "fetching", !.flip = Flip(report.flip),
                                                !.symbol = symbol, !.fetched = TRUE]
                  /\ bulk' = StartBulk(config, FALSE)
             ELSE /\ report' \in Finishes(symbol, FALSE, stock_result)
                  /\ UNCHANGED bulk
    /\ UNCHANGED gwVars
    /\ UNCHANGED recVars
    /\ UNCHANGED sideVars

\* fetch_data() has returned: get_stock_data again and the rest, lines 84-151
ChatResume ==
    /\ report.pc = "fetching" /\ bulk.pc = "idle"
    /\ \E raises \in BOOLEAN :
          report' \in {[r EXCEPT !.flip = report.flip] :
                         r \in Finishes(report.symbol, TRUE,
                                        get_stock_data(report.symbol, ChatDays, raises))}
    /\ UNCHANGED bulk
    /\ UNCHANGED gwVars
    /\ UNCHANGED recVars
    /\ UNCHANGED sideVars

(***************************************************************************)
(* Indicators, trend and risk (ai_analyzer.py): the steps of               *)
(* StockAIAnalyzer.analyze_stock ahead of _generate_recommendation.        *)
(* A price series is the sequence of its closes, oldest first; a bar's     *)
(* High and Low are taken to be its Close. Price levels are kept in        *)
(* hundredths, the trend strength in thousandths.                          *)
(***************************************************************************)

MaxBars == 30         \* bars in one price series
MaxStep == 2          \* largest move of the close from one bar to the next
BasePrice == 100      \* the first close of a series

NaN == -2             \* float('nan')
NoParts == [op |-> "none"]

Moves == (-MaxStep)..MaxStep

\* the series that starts at BasePrice, moves by m1 for l1 bars and then by
\* m2 for l2 bars
Closes(m1, l1, m2, l2) ==
    [i \in 1..(1 + l1 + l2) |->
        IF i <= 1 + l1 THEN BasePrice + m1 * (i - 1)
        ELSE BasePrice + m1 * l1 + m2 * (i - 1 - l1)]

\* the price series handed to the analyzer: none, or up to MaxBars positive
\* closes in two runs
SeriesInputs ==
    {<<>>} \cup
    {Closes(m1, t[1], m2, t[2]) :
        m1 \in Moves, m2 \in Moves,
        t \in {u \in (0..(MaxBars - 1)) \X (0..(MaxBars - 1)) : u[1] + u[2] <= MaxBars - 1}}

RECURSIVE SumFrom(_, _, _)
\* f[lo] + ... + f[hi]
SumFrom(f, lo, hi) == IF lo > hi THEN 0 ELSE f[lo] + SumFrom(f, lo + 1, hi)

Max(x, y) == IF x > y THEN x ELSE y
Last(prices) == prices[Len(prices)]

\* the largest r in 0..top with r * r <= v
ISqrt(v, top) == CHOOSE r \in 0..top : r * r <= v /\ (r = top \/ (r + 1) * (r + 1) > v)

\* rolling(window).mean().iloc[-1], in hundredths
RollingMean(prices, window) ==
    (100 * SumFrom(prices, Len(prices) - window + 1, Len(prices))) \div window

\* lines 91-93: a moving average, or current_price on a short series
Sma(prices, window, current_price) ==
    IF Len(prices) >= window THEN RollingMean(prices, window) ELSE 100 * current_price

RsiPeriod == 14

\* the sums of the gains and of the losses over the last `period` changes
\* (their rolling means are these sums over `period`)
Gains(prices, period) ==
    SumFrom([i \in 2..Len(prices) |-> Max(prices[i] - prices[i - 1], 0)],
            Len(prices) - period + 1, Len(prices))
Losses(prices, period) ==
    SumFrom([i \in 2..Len(prices) |-> Max(prices[i - 1] - prices[i], 0)],
            Len(prices) - period + 1, Len(prices))

\* 100 * gain / loss, the relative strength itself on the 0-100 scale
RsiOfRatio(gain, loss) == (100 * gain) \div loss

\* 100 - 100 / (1 + gain / loss) for loss > 0, as a whole number rounded
\* away from 50: it compares with 30, 50 and 70 as the float does
RsiOf(gain, loss) ==
    IF 2 * gain >= gain + loss
    THEN (100 * gain + gain + loss - 1) \div (gain + loss)
    ELSE (100 * gain) \div (gain + loss)

\* _calculate_rsi with inf turned into the default as NaN is
calculate_rsi_defaulting(prices) ==
    IF Len(prices) < RsiPeriod + 1 THEN 50
    ELSE IF Losses(prices, RsiPeriod) = 0 THEN 50
    ELSE RsiOf(Gains(prices, RsiPeriod), Losses(prices, RsiPeriod))

\* _calculate_rsi with NaN read as inf is
calculate_rsi_saturating(prices) ==
    IF Len(prices) < RsiPeriod + 1 THEN 50
    ELSE IF Losses(prices, RsiPeriod) = 0 THEN 100
    ELSE RsiOf(Gains(prices, RsiPeriod), Losses(prices, RsiPeriod))

\* _calculate_rsi, lines 122-137. With no loss in the window gain / loss is
\* inf for a positive gain (rsi = 100 - 100 / inf = 100.0) and NaN for no
\* gain either (rsi is NaN, which line 135 turns into 50.0).
calculate_rsi(prices) ==
    IF Len(prices) < RsiPeriod + 1 THEN 50
    ELSE IF Losses(prices, RsiPeriod) = 0
    THEN (IF Gains(prices, RsiPeriod) = 0 THEN 50 ELSE 100)
    ELSE RsiOf(Gains(prices, RsiPeriod), Losses(prices, RsiPeriod))

\* _calculate_macd, lines 139-157. The exponential averages of 26 bars and
\* more are not computed here: m says whether MACD ends below (-1), at (0)
\* or above (1) its signal line.
calculate_macd(prices, m) ==
    IF Len(prices) < 26
    THEN [macd |-> 0, macd_signal |-> 0, macd_histogram |-> 0]
    ELSE [macd |-> m, macd_signal |-> 0, macd_histogram |-> m]

\* prices.iloc[-1] on an empty Series raises IndexError, in the try branch
\* of _calculate_bollinger_bands (line 163) and again in its except branch
\* (line 182), so it leaves the function
BollingerRaises(prices) == prices = <<>>

BollingerPeriod == 20

\* rolling(20).std().iloc[-1] (sample deviation), in tenths
RollingStd(prices, window) ==
    LET n == Len(prices)
        s == SumFrom(prices, n - window + 1, n)
        q == SumFrom([i \in 1..n |-> prices[i] * prices[i]], n - window + 1, n)
    IN ISqrt((100 * (window * q - s * s)) \div (window * (window - 1)),
             10 * MaxBars * MaxStep)

\* lines 172-173: the bands two deviations (in tenths) around the average
Bands(sma, std) ==
    [bb_upper |-> sma + 20 * std, bb_middle |-> sma, bb_lower |-> sma - 20 * std]

\* _calculate_bollinger_bands, lines 159-187, on a Series with a last price
calculate_bollinger_bands(prices) ==
    IF Len(prices) < BollingerPeriod
    THEN [bb_upper |-> 102 * Last(prices), bb_middle |-> 100 * Last(prices),
          bb_lower |-> 98 * Last(prices)]
    ELSE Bands(RollingMean(prices, BollingerPeriod), RollingStd(prices, BollingerPeriod))

\* the largest and the smallest price of a Series
Highest(prices) == CHOOSE x \in {prices[i] : i \in 1..Len(prices)} :
                       \A i \in 1..Len(prices) : prices[i] <= x
Lowest(prices) == CHOOSE x \in {prices[i] : i \in 1..Len(prices)} :
                      \A i \in 1..Len(prices) : prices[i] >= x

\* _find_support_resistance, lines 189-207, on a Series with a last price.
\* rolling(window=5) gives NaN wherever fewer than 5 bars are behind it, so
\* on 1 to 4 bars highs and lows are all NaN (and not empty): their max and
\* min are NaN. From 5 bars on every bar lies in a full window.
find_support_resistance(prices) ==
    IF Len(prices) < 5
    THEN [resistance_level |-> NaN, support_level |-> NaN]
    ELSE [resistance_level |-> 100 * Highest(prices), support_level |-> 100 * Lowest(prices)]

\* _analyze_price_position, lines 209-232
analyze_price_position(current_price, indicators) ==
    [ma_position |-> IF 100 * current_price > indicators.sma_20 THEN "above" ELSE "below",
     ma_signal |-> IF 100 * current_price > indicators.sma_20 THEN "bullish" ELSE "bearish",
     bb_position |-> IF 100 * current_price > indicators.bb_upper THEN "overbought"
                     ELSE IF 100 * current_price < indicators.bb_lower THEN "oversold"
                     ELSE "normal"]

\* _generate_technical_signals, lines 235-262
generate_technical_signals(indicators) ==
    (IF indicators.rsi > 70 THEN <<"RSI indicates overbought condition">>
     ELSE IF indicators.rsi < 30 THEN <<"RSI indicates oversold condition">>
     ELSE <<>>)
    \o (IF indicators.macd > indicators.macd_signal
        THEN <<"MACD shows bullish momentum">> ELSE <<"MACD shows bearish momentum">>)
    \o (IF indicators.sma_5 > indicators.sma_20
        THEN <<"Short-term MA above long-term MA (bullish)">>
        ELSE <<"Short-term MA below long-term MA (bearish)">>)

\* the indicators dict of lines 88-112, updated with the dicts of the
\* MACD, Bollinger and support/resistance steps
Indicators(prices, current_price, macd_data, bb_data, support_resistance) ==
    [sma_5 |-> Sma(prices, 5, current_price),
     sma_10 |-> Sma(prices, 10, current_price),
     sma_20 |-> Sma(prices, 20, current_price),
     rsi |-> calculate_rsi(prices),
     macd |-> macd_data.macd,
     macd_signal |-> macd_data.macd_signal,
     macd_histogram |-> macd_data.macd_histogram,
     bb_upper |-> bb_data.bb_upper,
     bb_middle |-> bb_data.bb_middle,
     bb_lower |-> bb_data.bb_lower,
     resistance_level |-> support_resistance.resistance_level,
     support_level |-> support_resistance.support_level]

\* the dict returned by lines 113-117
Technical(current_price, indicators) ==
    [indicators |-> indicators,
     price_analysis |-> analyze_price_position(current_price, indicators),
     signals |-> generate_technical_signals(indicators)]

\* _technical_analysis(df, current_price), lines 84-120: the exception that
\* leaves _calculate_bollinger_bands is caught by line 119
technical_analysis(prices, current_price, m) ==
    IF BollingerRaises(prices) THEN [error |-> "Technical analysis error"]
    ELSE Technical(current_price,
                   Indicators(prices, current_price, calculate_macd(prices, m),
                              calculate_bollinger_bands(prices),
                              find_support_resistance(prices)))

\* (to - from) / from * 100, in hundredths of a percent
PercentChange(from, to) == (10000 * (to - from)) \div from

\* lines 274-284: the direction of a change and its strength,
\* min(|change| / 5, 1.0) except for a sideways trend
Direction(from, to) ==
    IF 100 * (to - from) > 2 * from
    THEN [trend |-> "bullish", strength |-> Min((20000 * Abs(to - from)) \div from, 1000)]
    ELSE IF 100 * (to - from) < -2 * from
    THEN [trend |-> "bearish", strength |-> Min((20000 * Abs(to - from)) \div from, 1000)]
    ELSE [trend |-> "sideways", strength |-> 500]

\* _trend_analysis, lines 264-293; iloc[-5] is the fifth close from the end
\* and iloc[-10] the tenth
trend_analysis(prices) ==
    IF Len(prices) < 5 THEN [trend |-> "insufficient_data", strength |-> 0]
    ELSE [trend |-> Direction(prices[Len(prices) - 4], Last(prices)).trend,
          strength |-> Direction(prices[Len(prices) - 4], Last(prices)).strength,
          short_term_change |-> PercentChange(prices[Len(prices) - 4], Last(prices)),
          medium_term_change |->
              IF Len(prices) >= 10 THEN PercentChange(prices[Len(prices) - 9], Last(prices))
              ELSE PercentChange(prices[Len(prices) - 4], Last(prices))]

\* the levels lines 334-339 can give a series of 5 bars and more
VolatilityLevels == {"high", "medium", "low"}

\* _risk_assessment with a short series rated as risky
risk_assessment_cautious(prices, level) ==
    IF Len(prices) < 5 THEN [risk_level |-> "high", volatility |-> 0]
    ELSE [risk_level |-> level]

\* _risk_assessment, lines 323-347. The annualised deviation of the returns
\* is not computed here: level is the level it falls in.
risk_assessment(prices, level) ==
    IF Len(prices) < 5 THEN [risk_level |-> "unknown", volatility |-> 0]
    ELSE [risk_level |-> level]

\* the arguments analyze_stock hands to _generate_recommendation, as the
\* engine reads them (lines 367-404)
RecommendationArgs(technical, trend, risk, news) ==
    [has_indicators |-> "indicators" \in DOMAIN technical,
     rsi |-> IF "indicators" \in DOMAIN technical THEN technical.indicators.rsi ELSE 50,
     macd |-> IF "indicators" \in DOMAIN technical THEN technical.indicators.macd ELSE 0,
     macd_signal |-> IF "indicators" \in DOMAIN technical
                     THEN technical.indicators.macd_signal ELSE 0,
     trend |-> trend.trend,
     overall_sentiment |-> news,
     risk_level |-> risk.risk_level]

\* _calculate_rsi(prices) is called on the closes
CalculateRsi ==
    /\ parts = NoParts
    /\ parts' = [op |-> "_calculate_rsi", rsi |-> calculate_rsi(closes)]
    /\ UNCHANGED <<analysis, recommendation, closes>>
    /\ UNCHANGED gwVars
    /\ UNCHANGED sideVars
    /\ UNCHANGED callerVars

\* _technical_analysis(df, current_price) is called on the series
TechnicalAnalysis(current_prices) ==
    /\ parts = NoParts
    /\ \E current_price \in current_prices, m \in MacdValues :
          /\ Len(closes) < 26 => m = 0
          /\ parts' = [op |-> "_technical_analysis", current_price |-> current_price,
                       technical |-> technical_analysis(closes, current_price, m)]
    /\ UNCHANGED <<analysis, recommendation, closes>>
    /\ UNCHANGED gwVars
    /\ UNCHANGED sideVars
    /\ UNCHANGED callerVars

\* StockAIAnalyzer.analyze_stock(symbol, closes, news_sentiment,
\* current_price) is called on the series, lines 39-82: every step catches
\* its own exceptions; the volume step does not enter the recommendation
AnalyzeStock(current_prices) ==
    /\ parts = NoParts
    /\ \E current_price \in current_prices, news \in SentimentLabels,
          m \in MacdValues, level \in VolatilityLevels :
          /\ Len(closes) < 26 => m = 0
          /\ Len(closes) < 5 => level = "low"
          /\ \E technical \in {technical_analysis(closes, current_price, m)},
                trend \in {trend_analysis(closes)},
                risk \in {risk_assessment(closes, level)} :
             \E a \in {RecommendationArgs(technical, trend, risk, news)} :
                IF closes = <<>>
                THEN /\ parts' = [op |-> "analyze_stock",
                                  result |-> analyze_stock(closes, analysis, FALSE)]
                     /\ UNCHANGED <<analysis, recommendation>>
                ELSE /\ parts' = [op |-> "analyze_stock", technical |-> technical,
                                  trend |-> trend, risk |-> risk, news |-> news,
                                  result |-> analyze_stock(closes, a, FALSE)]
                     /\ analysis' = a
                     /\ recommendation' = generate_recommendation(a)
    /\ UNCHANGED closes
    /\ UNCHANGED gwVars
    /\ UNCHANGED sideVars
    /\ UNCHANGED callerVars

(***************************************************************************)
(* News sentiment (news_fetcher.py)                                        *)
(***************************************************************************)

MaxArticles == 3      \* articles in one list
MaxMatches == 1       \* keyword matches of one kind in one article
MaxRun == 10          \* articles in one list of like articles in a row

NoSummary == [kind |-> "none"]

\* an article, as far as the analysis reads it: how many positive and how
\* many negative keywords occur in its title and description
Articles == [positive : 0..MaxMatches, negative : 0..MaxMatches, sentiment : {"-"}]

ArticleLists == UNION {[1..n -> Articles] : n \in 0..MaxArticles}

\* a longer list: p articles with a positive keyword, then q with a negative
\* one, then z with neither
Run(p, q, z) ==
    [i \in 1..(p + q + z) |->
        [positive |-> IF i <= p THEN 1 ELSE 0,
         negative |-> IF i > p /\ i <= p + q THEN 1 ELSE 0,
         sentiment |-> "-"]]

ArticleRuns ==
    {Run(p, q, z) : <<p, q, z>> \in
        {t \in (0..MaxRun) \X (0..MaxRun) \X (0..MaxRun) : t[1] + t[2] + t[3] <= MaxRun}}

\* lines 215-223: the label and the signed score of one article
ArticleSentiment(a) ==
    IF a.positive > a.negative THEN "positive"
    ELSE IF a.negative > a.positive THEN "negative"
    ELSE "neutral"

ArticleScore(a) ==
    IF a.positive > a.negative THEN 1
    ELSE IF a.negative > a.positive THEN -1
    ELSE 0

RECURSIVE SumScores(_)
SumScores(as) == IF as = <<>> THEN 0 ELSE ArticleScore(Head(as)) + SumScores(Tail(as))

CountScores(as, score) == Len(SelectSeq(as, LAMBDA a : ArticleScore(a) = score))

\* lines 229-234 with the thresholds at zero
OverallSentimentAtZero(total, n) ==
    IF total > 0 THEN "positive"
    ELSE IF total < 0 THEN "negative"
    ELSE "neutral"

\* lines 229-234: avg_score = total / n against the thresholds 0.1 and -0.1
OverallSentiment(total, n) ==
    IF 10 * total > n THEN "positive"
    ELSE IF 10 * total < -n THEN "negative"
    ELSE "neutral"

\* analyze_news_sentiment(articles): the dict it returns, with exactly the
\* keys the code puts in it. avg_score is SumScores / Len; sentiment_score
\* and confidence are kept in hundredths.
analyze_news_sentiment(as) ==
    IF as = <<>>
    THEN [overall_sentiment |-> "neutral", positive_count |-> 0, negative_count |-> 0,
          neutral_count |-> 0, confidence |-> 0]
    ELSE [overall_sentiment |-> OverallSentiment(SumScores(as), Len(as)),
          positive_count |-> CountScores(as, 1),
          negative_count |-> CountScores(as, -1),
          neutral_count |-> Len(as) - CountScores(as, 1) - CountScores(as, -1),
          confidence |-> (100 * Abs(SumScores(as))) \div Len(as),
          articles_analyzed |-> Len(as),
          sentiment_score |-> (500 * (SumScores(as) + Len(as))) \div Len(as)]

\* line 225: every article handed in gets its label written into it
Labelled(as) == [i \in 1..Len(as) |-> [as[i] EXCEPT !.sentiment = ArticleSentiment(as[i])]]

\* the dict of lines 259-268 and 288-297: no news, or an exception
NoNewsSummary ==
    [success |-> FALSE, overall_sentiment |-> "neutral", sentiment_score |-> 500,
     articles |-> <<>>, positive_count |-> 0, negative_count |-> 0, neutral_count |-> 0]

\* get_stock_news_sentiment(symbol), given the articles get_stock_news
\* found: lines 258-297
get_stock_news_sentiment(as, raises) ==
    IF raises \/ as = <<>> THEN NoNewsSummary
    ELSE LET a == analyze_news_sentiment(as)
         IN [success |-> TRUE, overall_sentiment |-> a.overall_sentiment,
             sentiment_score |-> a.sentiment_score,
             positive_count |-> a.positive_count, negative_count |-> a.negative_count,
             neutral_count |-> a.neutral_count, confidence |-> a.confidence,
             articles_analyzed |-> a.articles_analyzed,
             articles |-> Labelled(as)]

\* analyze_news_sentiment is called on the articles
AnalyzeNewsSentiment ==
    /\ sentiment = NoSummary
    /\ sentiment' = [kind |-> "analysis", summary |-> analyze_news_sentiment(articles)]
    /\ articles' = Labelled(articles)
    /\ UNCHANGED <<conn, upsert, seen>>
    /\ UNCHANGED gwVars
    /\ UNCHANGED recVars
    /\ UNCHANGED callerVars

\* get_stock_news_sentiment is called and get_stock_news finds the articles
GetStockNewsSentiment ==
    /\ sentiment = NoSummary
    /\ \E raises \in BOOLEAN :
          /\ sentiment' = [kind |-> "stock_news",
                           summary |-> get_stock_news_sentiment(articles, raises)]
          /\ articles' = IF raises THEN articles ELSE Labelled(articles)
    /\ UNCHANGED <<conn, upsert, seen>>
    /\ UNCHANGED gwVars
    /\ UNCHANGED recVars
    /\ UNCHANGED callerVars

(***************************************************************************)
(* Threads on the shared connection (database.py, connect: one             *)
(* sqlite3.connect(..., check_same_thread=False) for every caller).        *)
(* SQLite runs one statement at a time; the transaction belongs to the     *)
(* connection, so every thread reads what any thread has written, and a    *)
(* commit or rollback ends the transaction for all of them.                *)
(***************************************************************************)

\* conn.committed: the historical_data rows as of the last commit;
\* ended_by: the call whose commit or rollback ended the last transaction
IdleConn == [in_transaction |-> FALSE, committed |-> {}, ended_by |-> "none"]

IdleUpsert == [pc |-> "idle", symbol |-> "-", df |-> <<>>, i |-> 0, before |-> <<>>]

\* during: the read came while an upsert of the same symbol was in progress
NoRead == [symbol |-> "-", got |-> <<>>, during |-> FALSE]

\* the first write statement opens the connection's transaction
BeginIfNone == [conn EXCEPT !.in_transaction = TRUE]

EndBy(call, rows) ==
    [in_transaction |-> FALSE, committed |-> rows, ended_by |-> call]

\* a thread enters store_historical_data(symbol, df), lines 199-200
UpsertBegin(symbols) ==
    /\ upsert.pc = "idle"
    /\ \E symbol \in symbols, df \in Frames(today) \ {<<>>} :
          upsert' = [pc |-> "insert", symbol |-> symbol, df |-> df, i |-> 1,
                      before |-> StoredRows(historical_data, symbol)]
    /\ UNCHANGED <<conn, seen>>
    /\ UNCHANGED gwVars
    /\ UNCHANGED recVars
    /\ UNCHANGED newsVars
    /\ UNCHANGED callerVars

\* one turn of the loop of lines 202-215: INSERT OR REPLACE of row i
UpsertRow ==
    /\ upsert.pc = "insert"
    /\ historical_data' = InsertOrReplace(historical_data, upsert.symbol, upsert.df[upsert.i])
    /\ conn' = BeginIfNone
    /\ upsert' = [upsert EXCEPT !.i = @ + 1,
                                !.pc = IF upsert.i = Len(upsert.df) THEN "commit" ELSE "insert"]
    /\ UNCHANGED <<now, api_key, stock_data, fetch_tracking, ret, seen>>
    /\ UNCHANGED recVars
    /\ UNCHANGED newsVars
    /\ UNCHANGED callerVars

\* lines 217-226: the UPDATE of the tracking row and the commit
UpsertCommit ==
    /\ upsert.pc = "commit"
    /\ fetch_tracking' = UpdateLastHistoricalDate(Db, upsert.symbol, upsert.df).fetch_tracking
    /\ conn' = EndBy("upsert", historical_data)
    /\ upsert' = [upsert EXCEPT !.pc = "idle"]
    /\ UNCHANGED <<now, api_key, historical_data, stock_data, ret, seen>>
    /\ UNCHANGED recVars
    /\ UNCHANGED newsVars
    /\ UNCHANGED callerVars

\* lines 228-230: a statement raises; the thread rolls the connection back
UpsertRollback ==
    /\ upsert.pc \in {"insert", "commit"}
    /\ historical_data' = conn.committed
    /\ conn' = EndBy("upsert", conn.committed)
    /\ upsert' = [upsert EXCEPT !.pc = "idle"]
    /\ UNCHANGED <<now, api_key, stock_data, fetch_tracking, ret, seen>>
    /\ UNCHANGED recVars
    /\ UNCHANGED newsVars
    /\ UNCHANGED callerVars

\* a reader thread calls StockDatabase.get_historical_data(symbol, days)
CacheGet(symbols) ==
    /\ \E symbol \in symbols :
          seen' = [symbol |-> symbol,
                   got |-> db_get_historical_data(Db, symbol, period_to_days("5d")),
                   during |-> upsert.pc # "idle" /\ upsert.symbol = symbol]
    /\ UNCHANGED <<conn, upsert>>
    /\ UNCHANGED gwVars
    /\ UNCHANGED recVars
    /\ UNCHANGED newsVars
    /\ UNCHANGED callerVars

\* another thread runs store_stock_data(symbol, data) to its commit, or to
\* its rollback when statement fail_at raises
ThreadStoreQuote(symbols, prices) ==
    /\ Len(stock_data) < MaxQuotes
    /\ \E symbol \in symbols, price \in prices, fail_at \in {0} \cup QuoteFailPoints :
          LET data == [price |-> price, timestamp |-> now, source |-> SourceUsed]
          IN IF fail_at > 0
             THEN /\ historical_data' = conn.committed
                  /\ conn' = EndBy("quote", conn.committed)
                  /\ UNCHANGED <<stock_data, fetch_tracking>>
             ELSE /\ Commit(store_stock_data(Db, symbol, data, 0))
                  /\ conn' = EndBy("quote", historical_data)
    /\ UNCHANGED <<now, api_key, ret, upsert, seen>>
    /\ UNCHANGED recVars
    /\ UNCHANGED newsVars
    /\ UNCHANGED callerVars

(***************************************************************************)
(* Specifications                                                          *)
(***************************************************************************)

NoCall == [flip |-> 0, at |-> 0, op |-> "none", symbol |-> "-", period |-> "-",
           force_fetch |-> FALSE, store_in_db |-> FALSE, calls |-> <<>>,
           outcome |-> "ok", path |-> "none", write |-> "none",
           quote |-> NoQuote, series |-> <<>>]

InitGateway ==
    /\ now = 0
    /\ api_key \in BOOLEAN
    /\ historical_data = {}
    /\ stock_data = <<>>
    /\ fetch_tracking = [s \in Symbols |-> NoRow]
    /\ ret = NoCall
    /\ conn = IdleConn
    /\ upsert = IdleUpsert
    /\ seen = NoRead
    /\ bulk = IdleBulk
    /\ report = NoReport
    /\ sentiment = NoSummary

NoSeries == closes = <<>> /\ parts = NoParts

InitEngine ==
    /\ analysis \in AnalysisInputs
    /\ recommendation = NoRec
    /\ NoSeries

NoNews == articles = <<>>

IdleArgs ==
    /\ analysis = [has_indicators |-> TRUE, rsi |-> 50, macd |-> 0, macd_signal |-> 0,
                   trend |-> "sideways", overall_sentiment |-> "neutral",
                   risk_level |-> "medium"]
    /\ recommendation = NoRec

IdleEngine == IdleArgs /\ NoSeries

Init == InitGateway /\ IdleEngine /\ NoNews

\* the recommendation engine on every combination of inputs
InitRec == InitEngine /\ InitGateway /\ NoNews /\ api_key = TRUE
NextRec == GenerateRecommendation
SpecRec == InitRec /\ [][NextRec]_vars

\* quotes of every symbol
NextQuote == GetQuote(Symbols, BOOLEAN) \/ Tick(LastTick)
SpecQuote == Init /\ [][NextQuote]_vars

\* the history of one symbol, every period
NextHistory == GetHistory({"AAPL"}, Periods, BOOLEAN) \/ Tick(LastTick)
SpecHistory == Init /\ [][NextHistory]_vars

\* quotes of every symbol together with the history of one symbol
Next == GetQuote(Symbols, {TRUE}) \/ GetHistory({"AAPL"}, {"5d"}, {TRUE}) \/ Tick(1)
Spec == Init /\ [][Next]_vars

\* the history of every symbol over two days
NextCache == GetHistory(Symbols, {"5d"}, {TRUE}) \/ Tick(TicksPerDay)
SpecCache == Init /\ [][NextCache]_vars

\* every cache write for one symbol over two days, up to its first quote
NextWrites == GetHistory({"AAPL"}, {"5d"}, {TRUE})
                 \/ (stock_data = <<>> /\ GetQuote({"AAPL"}, {TRUE}))
                 \/ Tick(TicksPerDay)
SpecWrites == Init /\ [][NextWrites]_vars

\* an upsert, a reader and a quote writer as threads on one connection
NextThreads == UpsertBegin({"AAPL"}) \/ UpsertRow \/ UpsertCommit \/ UpsertRollback
                  \/ CacheGet({"AAPL"}) \/ ThreadStoreQuote({"MSFT"}, {MaxPrice})
                  \/ Tick(TicksPerDay)
SpecThreads == Init /\ [][NextThreads]_vars

\* bulk_fetch_and_store over two configured symbols
NextBulk == BulkStart(<<"AAPL", "MSFT">>, BOOLEAN) \/ BulkQuote \/ BulkSleep
               \/ BulkHistory \/ Tick(1)
SpecBulk == Init /\ [][NextBulk]_vars

\* the orchestrator on one symbol; the cache is filled by the fetches it
\* triggers
NextChat == ChatAnalyze({"AAPL"}, <<"AAPL">>) \/ ChatResume
               \/ BulkQuote \/ BulkSleep \/ BulkHistory
               \/ Tick(TicksPerDay)
SpecChat == Init /\ [][NextChat]_vars

\* the sentiment analysis on every list of articles
InitNews ==
    InitGateway /\ IdleEngine /\ articles \in ArticleLists \cup ArticleRuns /\ api_key = TRUE
NextNews == AnalyzeNewsSentiment \/ GetStockNewsSentiment
SpecNews == InitNews /\ [][NextNews]_vars

\* the analyzer on every price series, at one current price
InitSeries ==
    InitGateway /\ IdleArgs /\ NoNews /\ api_key = TRUE
        /\ closes \in SeriesInputs /\ parts = NoParts
NextSeries == CalculateRsi \/ TechnicalAnalysis({BasePrice}) \/ AnalyzeStock({BasePrice})
SpecSeries == InitSeries /\ [][NextSeries]_vars

(***************************************************************************)
(* Recommendation engine claims (SpecRec)                                  *)
(***************************************************************************)

\* the table of section 4.5, row by row
TableSum(a) ==
      (IF a.rsi < 30 THEN 2 ELSE 0)
    + (IF a.rsi > 70 THEN -2 ELSE 0)
    + (IF a.macd > a.macd_signal THEN 1 ELSE 0)
    + (IF a.macd <= a.macd_signal THEN -1 ELSE 0)
    + (IF a.trend = "bullish" THEN 2 ELSE 0)
    + (IF a.trend = "bearish" THEN -2 ELSE 0)
    + (IF a.overall_sentiment = "positive" THEN 1 ELSE 0)
    + (IF a.overall_sentiment = "negative" THEN -1 ELSE 0)
    + (IF a.risk_level = "high" THEN -1 ELSE 0)

FactorDelta(f) ==
    CASE f = "RSI oversold (bullish)" -> 2
      [] f = "RSI overbought (bearish)" -> -2
      [] f = "MACD bullish crossover" -> 1
      [] f = "MACD bearish crossover" -> -1
      [] f = "Strong bullish trend" -> 2
      [] f = "Strong bearish trend" -> -2
      [] f = "Positive news sentiment" -> 1
      [] f = "Negative news sentiment" -> -1
      [] f = "High volatility risk" -> -1

RECURSIVE SumDeltas(_)
SumDeltas(fs) == IF fs = <<>> THEN 0 ELSE FactorDelta(Head(fs)) + SumDeltas(Tail(fs))

Scored == recommendation.kind = "scored"

\* C1: for every combination of RSI, MACD vs signal, trend, sentiment and
\* risk, the returned score is the sum of the deltas of exactly the table
\* rows whose condition holds, and re-adding the deltas of the returned
\* factor strings gives the same total.
C1_ScoreIsTableSum ==
    /\ (Scored /\ analysis.has_indicators) => recommendation.score = TableSum(analysis)
    /\ Scored => SumDeltas(recommendation.factors) = recommendation.score

\* a scored input on which five rows of the table apply at once
C1_Witness ==
    /\ Scored
    /\ analysis.has_indicators
    /\ Len(recommendation.factors) = 5
    /\ recommendation.score = -1

\* C2: score >= 3 -> strong_buy/BUY; 1..2 -> buy/BUY; <= -3 ->
\* strong_sell/SELL; -2..-1 -> sell/SELL; 0 -> hold/HOLD with confidence 60;
\* so the action is HOLD iff the score is 0 and never disagrees with its sign.
C2_TierFollowsScore ==
    Scored =>
        LET r == recommendation
        IN /\ r.score >= 3 => r.recommendation = "strong_buy" /\ r.action = "BUY"
           /\ (1 <= r.score /\ r.score <= 2) => r.recommendation = "buy" /\ r.action = "BUY"
           /\ r.score <= -3 => r.recommendation = "strong_sell" /\ r.action = "SELL"
           /\ (-2 <= r.score /\ r.score <= -1) => r.recommendation = "sell" /\ r.action = "SELL"
           /\ r.score = 0 => r.recommendation = "hold" /\ r.action = "HOLD" /\ r.confidence = 600
           /\ r.action = "HOLD" <=> r.score = 0
           /\ r.action = "BUY" => r.score > 0
           /\ r.action = "SELL" => r.score < 0

\* a score of 0 reached with opposing signals, answered by hold/HOLD
C2_Witness ==
    /\ Scored
    /\ recommendation.score = 0
    /\ Len(recommendation.factors) >= 2
    /\ recommendation.action = "HOLD"

\* C3: when a step inside the engine raises, the engine returns a
\* recommendation with action HOLD, confidence 0 and an error description.
C3_FaultIsHoldZero ==
    recommendation.kind = "fault" =>
        /\ recommendation.action = "HOLD"
        /\ recommendation.confidence = 0
        /\ recommendation.error

(***************************************************************************)
(* Gateway and cache claims                                                *)
(***************************************************************************)

\* the step is a gateway call (every call flips ret.flip)
IsCall == ret'.flip # ret.flip

HasBars(symbol) == \E r \in historical_data : r.symbol = symbol

\* the source was asked and failed
FetchFailed == ret.op = "getHistory" /\ ret.path \in {"fallback", "none"}

\* C4: getHistory(symbol, lookback, forceRefresh=false), called when the
\* cache of the symbol was filled by a fetch less than one day ago and
\* covers the requested window, returns the cached Series and makes no call
\* to the price source, whatever the date of the newest cached bar.
C4_FreshCacheNoFetch ==
    [][(/\ ret.op = "getHistory" /\ ret.path = "fetch" /\ ret.write = "ok"
        /\ now - ret.at < TicksPerDay
        /\ IsCall
        /\ ret'.op = "getHistory" /\ ret'.symbol = ret.symbol /\ ~ret'.force_fetch
        /\ db_get_historical_data(Db, ret.symbol, period_to_days(ret'.period)) # <<>>)
       => (/\ ret'.calls = <<>>
           /\ ret'.outcome = "ok"
           /\ ret'.series = db_get_historical_data(Db, ret.symbol,
                                                   period_to_days(ret'.period)))]_vars

\* C5: when the fetch fails and the cache holds any bar of the symbol (also
\* bars older than the lookback window), getHistory returns cached data; it
\* fails only when the fetch failed and the cache holds no bar of the symbol.
C5_FallbackOnAnyCachedBar ==
    FetchFailed =>
        /\ HasBars(ret.symbol) => (ret.outcome = "ok" /\ ret.series # <<>>)
        /\ ret.outcome = "error" => ~HasBars(ret.symbol)

\* C6: when getHistory fetches and the source returns a non-empty Series,
\* every fetched bar is in the cache when getHistory returns, the returned
\* Series is the fetched one, and a cache get for the window returns those bars.
C6_FetchedBarsAreCached ==
    (ret.op = "getHistory" /\ ret.path = "fetch" /\ ret.series # <<>> /\ now = ret.at) =>
        /\ \A b \in BarsOf(ret.series) :
              [symbol |-> ret.symbol, date |-> b.date, close |-> b.close] \in historical_data
        /\ BarsOf(ret.series) \subseteq
              BarsOf(db_get_historical_data(Db, ret.symbol, period_to_days(ret.period)))

\* C7: with an API key configured, when the primary paid source fails the
\* free fallback source is tried next: no failure of one source reaches
\* the caller while another source is untried.
C7_FallbackSourceTried ==
    (/\ api_key
     /\ \/ (ret.op = "getQuote" /\ ret.outcome = "error")
        \/ FetchFailed)
    => \E i \in 1..Len(ret.calls) : ret.calls[i] = "Yahoo Finance"

\* the rows of a symbol in the next state
RowsAfter(symbol) == SelectSeq(stock_data', LAMBDA r : r.symbol = symbol)

\* the last row of the symbol holds the quote q
LastRowIs(rows, q) ==
    /\ rows # <<>>
    /\ rows[Len(rows)].price = q.price
    /\ rows[Len(rows)].timestamp = q.timestamp
    /\ rows[Len(rows)].data_source = q.source

\* C8: a getQuote that obtains a quote from a source records exactly one new
\* quote of that symbol and returns it; a getQuote whose sources all fail
\* returns a failure and leaves quotes, bars and FetchTracking unchanged.
C8_QuoteRecordedOrUntouched ==
    [][(IsCall /\ ret'.op = "getQuote" /\ ret'.store_in_db) =>
          IF ret'.outcome = "ok"
          THEN /\ Len(RowsAfter(ret'.symbol)) = Len(RowsOf(Db, ret'.symbol)) + 1
               /\ LastRowIs(RowsAfter(ret'.symbol), ret'.quote)
               /\ \A s \in Symbols \ {ret'.symbol} : RowsAfter(s) = RowsOf(Db, s)
          ELSE UNCHANGED <<historical_data, stock_data, fetch_tracking>>]_vars

\* C9: recordQuote always appends: through any sequence of recordQuote and
\* upsert calls every successful recordQuote adds one entry to the log of its
\* symbol, and no call changes or removes a stored quote.
C9_QuotesAppendOnly ==
    [][\A s \in Symbols :
          IF IsCall /\ ret'.op = "getQuote" /\ ret'.write = "ok" /\ ret'.symbol = s
          THEN /\ Len(RowsAfter(s)) = Len(RowsOf(Db, s)) + 1
               /\ SubSeq(RowsAfter(s), 1, Len(RowsOf(Db, s))) = RowsOf(Db, s)
               /\ LastRowIs(RowsAfter(s), ret'.quote)
          ELSE RowsAfter(s) = RowsOf(Db, s)]_vars

\* two quotes of one symbol recorded around an upsert of its bars
C9_Witness ==
    /\ Len(RowsOf(Db, "AAPL")) = 2
    /\ HasBars("AAPL")
    /\ ret.op = "getQuote" /\ ret.write = "ok" /\ ret.symbol = "AAPL"

\* C10: after recordQuote(symbol, q) succeeds and before another
\* recordQuote of the symbol, latestQuote(symbol) returns q, whatever
\* timestamp q carries.
C10_LatestIsLastRecorded ==
    (ret.op = "getQuote" /\ ret.write = "ok") =>
        LET rows == RowsOf(Db, ret.symbol)
        IN rows[Len(rows)] \in get_latest_stock_data(Db, ret.symbol)

(***************************************************************************)
(* Cache write claims (SpecCache, SpecWrites)                              *)
(***************************************************************************)

\* the stored Series of a symbol: all its bars, in date order
StoredSeries(rows, symbol) == StoredRows(rows, symbol)

\* the call just made was get_historical_data, and its upsert was committed
Upserted == IsCall /\ ret'.op = "getHistory" /\ ret'.write = "ok"

\* C11: upserting a Series a second time changes the stored Series of no
\* symbol: whenever an upsert of S for a symbol has just been committed,
\* store_historical_data of the same S for the same symbol on the resulting
\* tables leaves every symbol's stored Series as it is.
C11_UpsertIdempotent ==
    [][Upserted =>
        \A s \in Symbols :
            StoredSeries(store_historical_data(Db', ret'.symbol, ret'.series, 0).historical_data, s)
                = StoredSeries(historical_data', s)]_vars

\* an upsert of two bars over a stored bar of another close has happened,
\* with bars of the other symbol in the table
C11_Witness ==
    /\ ret.op = "getHistory" /\ ret.write = "ok" /\ Len(ret.series) = 2
    /\ \E r \in historical_data : r.symbol # ret.symbol
    /\ store_historical_data(Db, ret.symbol, ret.series, 0).historical_data = historical_data

OneBarPerDate ==
    \A r1, r2 \in historical_data :
        r1.symbol = r2.symbol /\ r1.date = r2.date => r1 = r2

StrictlyIncreasing(df) == \A i \in 1..(Len(df) - 1) : df[i].date < df[i + 1].date

\* cache get returns the symbol's stored bars of the window, each once
GetInDateOrder ==
    \A s \in Symbols, p \in Periods :
        LET got == db_get_historical_data(Db, s, period_to_days(p))
        IN /\ StrictlyIncreasing(got)
           /\ \A i \in 1..Len(got) :
                [symbol |-> s, date |-> got[i].date, close |-> got[i].close] \in historical_data

\* the row of a (symbol, date), or none
RowAt(rows, symbol, d) == {r \in rows : r.symbol = symbol /\ r.date = d}

UpsertOverwrites ==
    Upserted =>
        /\ \A i \in 1..Len(ret'.series) :
              RowAt(historical_data', ret'.symbol, ret'.series[i].date)
                  = {[symbol |-> ret'.symbol, date |-> ret'.series[i].date,
                      close |-> ret'.series[i].close]}
        /\ \A s \in Symbols, d \in Dates :
              (s # ret'.symbol \/ d \notin DatesOf(ret'.series))
                  => RowAt(historical_data', s, d) = RowAt(historical_data, s, d)

\* C12: the stored Series of a symbol never has two bars of one date; an
\* upsert leaves exactly the upserted bar at each of its dates and leaves
\* the bars of every other date and of every other symbol unchanged; cache
\* get returns bars in strictly increasing date order.
C12_OneBarPerDate ==
    [](OneBarPerDate /\ GetInDateOrder) /\ [][UpsertOverwrites]_vars

\* an upsert has replaced a stored bar by a bar of another close, next to a
\* bar of another date and bars of the other symbol
C12_Witness ==
    /\ ret.op = "getHistory" /\ ret.write = "ok" /\ Len(ret.series) = 1
    /\ Cardinality({r \in historical_data : r.symbol = ret.symbol}) = 2
    /\ \E r \in historical_data : r.symbol # ret.symbol
    /\ Len(db_get_historical_data(Db, ret.symbol, 5)) = 2

\* C13: a cache write that fails changes nothing: after a call whose store
\* raised at any of its statements, the stored bars, the quotes and the
\* fetch tracking are what they were before the call.
C13_FailedWriteChangesNothing ==
    [][IsCall /\ ret'.write = "failed"
          => UNCHANGED <<historical_data, stock_data, fetch_tracking>>]_vars

\* an upsert of two bars has failed with bars, a quote and a tracking row
\* stored before it
C13_Witness ==
    /\ ret.op = "getHistory" /\ ret.write = "failed" /\ Len(ret.series) = 2
    /\ historical_data # {} /\ stock_data # <<>>
    /\ fetch_tracking[ret.symbol].present

\* C14: a storage error is reported to the caller: a call whose store
\* raised does not return the quote or the Series as a success.
C14_StorageErrorReported == ret.write = "failed" => ret.outcome = "error"

(***************************************************************************)
(* Concurrency claim (SpecThreads)                                         *)
(***************************************************************************)

\* the Series an upsert of df makes of the Series `before`
Merged(before, df) ==
    StoredRows(InsertAll({[symbol |-> "-", date |-> before[i].date, close |-> before[i].close]
                              : i \in 1..Len(before)}, "-", df), "-")

\* a read of the symbol while its upsert is in progress returns the Series
\* as it was before the upsert or the fully merged Series
ReaderSeesWholeUpsert ==
    (seen' # seen /\ seen'.during)
    => seen'.got \in {upsert.before, Merged(upsert.before, upsert.df)}

\* a commit or rollback of the quote writer, while an upsert is in
\* progress, neither commits nor discards what the upsert has written
ForeignEndKeepsUpsert ==
    (conn.in_transaction /\ ~conn'.in_transaction /\ conn'.ended_by = "quote"
        /\ upsert.pc # "idle")
    => (conn'.committed = conn.committed /\ historical_data' = historical_data)

\* C15: with an upsert and readers as threads on the shared connection, a
\* reader never gets a Series holding only some bars of the upsert, and no
\* call's commit or rollback commits or discards the rows of an upsert in
\* progress.
C15_UpsertAtomicForThreads ==
    [][ReaderSeesWholeUpsert /\ ForeignEndKeepsUpsert]_vars

(***************************************************************************)
(* Rate limit claim (SpecBulk)                                             *)
(***************************************************************************)

\* the step makes an outbound call to the price source, inside a bulk run
OutboundCall == IsCall /\ ret'.calls # <<>> /\ bulk.pc # "idle"

\* C16: in a multi-symbol sequential fetch, every outbound call after the
\* first one of the run comes after a wait of at least rate_limit_delay
\* since the call before it.
C16_DelayBetweenCalls ==
    [][OutboundCall /\ bulk.called => bulk.waited >= RateLimitDelay]_vars

(***************************************************************************)
(* Fetch tracking claim (SpecWrites)                                       *)
(***************************************************************************)

\* the call just made fetched from the source and committed what it fetched
FetchedAndStored == IsCall /\ ret'.path = "fetch" /\ ret'.write = "ok"

\* the tracking row of the symbol exists, carries the time of this fetch
\* and counts one fetch more than before
TrackingAdvanced(symbol) ==
    /\ fetch_tracking'[symbol].present
    /\ fetch_tracking'[symbol].last_fetch_date = now
    /\ fetch_tracking'[symbol].fetch_count =
          (IF fetch_tracking[symbol].present THEN fetch_tracking[symbol].fetch_count ELSE 0) + 1

\* C17: every successful fetch of a quote or of history creates or updates
\* the symbol's tracking row (time of the fetch, count plus one), and a
\* history fetch sets last_historical_date to the newest fetched bar's date.
C17_TrackingOnEveryFetch ==
    [][FetchedAndStored =>
        /\ TrackingAdvanced(ret'.symbol)
        /\ ret'.op = "getHistory" =>
              fetch_tracking'[ret'.symbol].last_historical_date
                  = ret'.series[Len(ret'.series)].date]_vars

\* C28: recording a quote for a symbol leaves the symbol's
\* last_historical_date unchanged: once an upsert has set it, later
\* recordQuote calls for the symbol keep it at that value.
C28_QuoteKeepsLastHistoricalDate ==
    [][(IsCall /\ ret'.op = "getQuote"
          /\ fetch_tracking[ret'.symbol].present
          /\ fetch_tracking[ret'.symbol].last_historical_date # Never)
        => /\ fetch_tracking'[ret'.symbol].present
           /\ fetch_tracking'[ret'.symbol].last_historical_date
                 = fetch_tracking[ret'.symbol].last_historical_date]_vars

\* C29: whenever getHistory returns normally the returned Series is not
\* empty: a source that answers with no bar inside the requested window
\* leads to the cached Series or to a failure.
C29_HistoryNeverEmpty ==
    (ret.op = "getHistory" /\ ret.outcome = "ok") => ret.series # <<>>

(***************************************************************************)
(* Sentiment claim (SpecNews)                                              *)
(***************************************************************************)

\* the dict has the key and the value under it
Has(summary, key, value) == key \in DOMAIN summary /\ summary[key] = value

\* C20: the sentiment analysis of an empty article list returns, as a
\* normal result, a summary with overall_sentiment neutral, sentiment_score
\* 5.0 and confidence 0, all three of them.
C20_EmptyListDefault ==
    (sentiment # NoSummary /\ articles = <<>>) =>
        /\ Has(sentiment.summary, "overall_sentiment", "neutral")
        /\ Has(sentiment.summary, "sentiment_score", 500)
        /\ Has(sentiment.summary, "confidence", 0)
        /\ ~Has(sentiment.summary, "success", FALSE)

\* the articles scored +1 and the articles scored -1, counted on the list
PositiveArticles == {i \in 1..Len(articles) : articles[i].positive > articles[i].negative}
NegativeArticles == {i \in 1..Len(articles) : articles[i].negative > articles[i].positive}

NewsAnalysed == sentiment # NoSummary /\ sentiment.kind = "analysis" /\ articles # <<>>

\* C21: for a non-empty list of n articles, p of them scored +1 and q scored
\* -1, avg = (p-q)/n: overall_sentiment is positive iff avg > 0.1, negative
\* iff avg < -0.1 and neutral otherwise; sentiment_score is (avg+1)*5 and
\* lies in [0,10]; confidence is |avg| and lies in [0,1]; positive_count is
\* p, negative_count is q and the three counts add up to n. (Scores and
\* confidence in hundredths.)
C21_SentimentOfAverage ==
    NewsAnalysed =>
        LET n == Len(articles)
            p == Cardinality(PositiveArticles)
            q == Cardinality(NegativeArticles)
            s == sentiment.summary
        IN /\ (s.overall_sentiment = "positive") <=> (10 * (p - q) > n)
           /\ (s.overall_sentiment = "negative") <=> (10 * (p - q) < -n)
           /\ (s.overall_sentiment = "neutral") <=>
                  (10 * (p - q) <= n /\ 10 * (p - q) >= -n)
           /\ s.sentiment_score = (500 * (p - q + n)) \div n
           /\ s.sentiment_score \in 0..1000
           /\ s.confidence = (100 * Abs(p - q)) \div n
           /\ s.confidence \in 0..100
           /\ s.positive_count = p
           /\ s.negative_count = q
           /\ s.positive_count + s.negative_count + s.neutral_count = n

\* ten articles, one more of them positive than negative: avg is exactly 0.1
C21_Witness ==
    /\ NewsAnalysed
    /\ Len(articles) = 10
    /\ Cardinality(PositiveArticles) - Cardinality(NegativeArticles) = 1
    /\ sentiment.summary.overall_sentiment = "neutral"

(***************************************************************************)
(* Indicator claims (SpecSeries)                                           *)
(***************************************************************************)

\* the changes of the close RSI(14) looks at: the last 14
LastChanges == {i \in 2..Len(closes) : i > Len(closes) - RsiPeriod}
NoDownMove == \A i \in LastChanges : closes[i] >= closes[i - 1]
NoUpMove == \A i \in LastChanges : closes[i] <= closes[i - 1]
AllGains == \A i \in LastChanges : closes[i] > closes[i - 1]

RsiCalled == parts.op = "_calculate_rsi"
Analyzed == parts.op = "analyze_stock" /\ closes # <<>>

\* C22: for every series of positive closes the RSI(14) result lies in
\* [0,100], and it is exactly 50.0 whenever the series has fewer than 15 bars.
C22_RsiInRange ==
    RsiCalled =>
        /\ parts.rsi \in 0..100
        /\ Len(closes) < RsiPeriod + 1 => parts.rsi = 50

\* a full window with moves both ways and more gain than loss
C22_Witness ==
    /\ RsiCalled
    /\ Len(closes) >= RsiPeriod + 1
    /\ ~NoDownMove /\ ~NoUpMove
    /\ parts.rsi > 70 /\ parts.rsi < 100

\* C23 as stated: for every series with at least 15 bars and no down move
\* in the last 14 changes (average loss zero), RSI(14) returns the neutral
\* default 50.0.
C23_ZeroLossIsNeutral ==
    (RsiCalled /\ Len(closes) >= RsiPeriod + 1 /\ NoDownMove) => parts.rsi = 50

\* C23 amended: for every series with at least 15 bars and no down move in
\* the last 14 changes, RSI(14) returns the neutral default 50.0 when there
\* is no up move among them either (the ratio is undefined), and 100.0 when
\* there is one.
C23_ZeroLossIsNeutralOrFull ==
    (RsiCalled /\ Len(closes) >= RsiPeriod + 1 /\ NoDownMove) =>
        parts.rsi = IF NoUpMove THEN 50 ELSE 100

\* a fall, then at least 14 changes without any move
C23_Witness ==
    /\ RsiCalled
    /\ Len(closes) > RsiPeriod + 1
    /\ closes[1] > closes[Len(closes)]
    /\ NoDownMove /\ NoUpMove
    /\ parts.rsi = 50

\* C24: for a series of at least 15 closes whose last 14 changes are all
\* gains, RSI(14) on the final day is 100.0, and the RSI > 70 row (-2)
\* applies in the recommendation score.
C24_AllGainsIsFull ==
    (Analyzed /\ Len(closes) >= RsiPeriod + 1 /\ AllGains) =>
        /\ parts.technical.indicators.rsi = 100
        /\ recommendation.kind = "scored"
        /\ \E i \in 1..Len(recommendation.factors) :
              recommendation.factors[i] = "RSI overbought (bearish)"
        /\ RsiStep(analysis).d = -2

\* 30 closes, each above the one before
C24_Witness ==
    /\ Analyzed
    /\ Len(closes) = 30
    /\ \A i \in 2..Len(closes) : closes[i] > closes[i - 1]
    /\ parts.technical.indicators.rsi = 100

\* C25: the indicator computation applied to an empty Series returns an
\* IndicatorSet holding every neutral default (SMA = currentPrice, RSI = 50,
\* MACD, signal and histogram = 0, Bollinger = price with +/-2%, support and
\* resistance = currentPrice -/+ 5%) and returns no error value in place of
\* the indicators.
C25_EmptySeriesDefaults ==
    (parts.op = "_technical_analysis" /\ closes = <<>>) =>
        /\ "error" \notin DOMAIN parts.technical
        /\ "indicators" \in DOMAIN parts.technical
        /\ parts.technical.indicators =
              [sma_5 |-> 100 * parts.current_price,
               sma_10 |-> 100 * parts.current_price,
               sma_20 |-> 100 * parts.current_price,
               rsi |-> 50,
               macd |-> 0, macd_signal |-> 0, macd_histogram |-> 0,
               bb_upper |-> 102 * parts.current_price,
               bb_middle |-> 100 * parts.current_price,
               bb_lower |-> 98 * parts.current_price,
               resistance_level |-> 105 * parts.current_price,
               support_level |-> 95 * parts.current_price]

\* C26: for every series with at least 5 bars, the trend is bullish iff the
\* percent change from the fifth close from the end to the last close is
\* > +2, bearish iff it is < -2, sideways otherwise, and in all three cases
\* strength = min(|change|/5, 1.0), so strength is in [0,1] and is 0 when
\* the change is 0. (Strength in thousandths.)
C26_TrendAndStrength ==
    (Analyzed /\ Len(closes) >= 5) =>
        LET from == closes[Len(closes) - 4]
            to == closes[Len(closes)]
        IN /\ (parts.trend.trend = "bullish") <=> (100 * (to - from) > 2 * from)
           /\ (parts.trend.trend = "bearish") <=> (100 * (to - from) < -2 * from)
           /\ (parts.trend.trend = "sideways") <=>
                  (100 * (to - from) <= 2 * from /\ 100 * (to - from) >= -2 * from)
           /\ parts.trend.strength = Min((20000 * Abs(to - from)) \div from, 1000)
           /\ parts.trend.strength \in 0..1000
           /\ to = from => parts.trend.strength = 0

\* C27: for every non-empty series with fewer than 5 bars, the support and
\* resistance levels in the IndicatorSet are defined numbers, not NaN.
C27_ShortSeriesLevelsDefined ==
    (parts.op \in {"_technical_analysis", "analyze_stock"}
        /\ closes # <<>> /\ Len(closes) < 5) =>
        /\ parts.technical.indicators.support_level # NaN
        /\ parts.technical.indicators.resistance_level # NaN

\* C30: for every non-empty series with fewer than 5 bars and neutral news
\* sentiment, the full analysis yields RSI = 50, MACD = MACD signal = 0,
\* trend = insufficient_data and risk = unknown, and the recommendation is
\* score -1, tier sell, action SELL with confidence 33.3, the MACD <= signal
\* row being the only factor; and every series with fewer than 26 bars
\* contributes the -1 'MACD bearish crossover' factor.
C30_ShortSeriesIsSell ==
    /\ (Analyzed /\ Len(closes) < 5 /\ parts.news = "neutral") =>
          /\ parts.technical.indicators.rsi = 50
          /\ parts.technical.indicators.macd = 0
          /\ parts.technical.indicators.macd_signal = 0
          /\ parts.trend.trend = "insufficient_data"
          /\ parts.risk.risk_level = "unknown"
          /\ recommendation.kind = "scored"
          /\ recommendation.score = -1
          /\ recommendation.recommendation = "sell"
          /\ recommendation.action = "SELL"
          /\ recommendation.confidence = 333
          /\ recommendation.factors = <<"MACD bearish crossover">>
    /\ (Analyzed /\ Len(closes) < 26) =>
          /\ recommendation.kind = "scored"
          /\ \E i \in 1..Len(recommendation.factors) :
                recommendation.factors[i] = "MACD bearish crossover"
          /\ MacdStep(analysis).d = -1

\* four bars and neutral news
C30_Witness ==
    /\ Analyzed
    /\ Len(closes) = 4
    /\ parts.news = "neutral"
    /\ recommendation.kind = "scored"
    /\ recommendation.score = -1

(***************************************************************************)
(* Orchestrator claims (SpecChat)                                          *)
(***************************************************************************)

\* C18: a report made when no history is available for the symbol is an
\* error report whose recommendation has action HOLD and confidence 0.
C18_NoHistoryIsHoldZero ==
    (report.pc = "idle" /\ report # NoReport /\ report.bars <= 0) =>
        /\ report.error # "-"
        /\ report.recommendation.action = "HOLD"
        /\ report.recommendation.confidence = 0

\* a call of the orchestrator begins
ChatCalled == report.pc = "idle" /\ report'.flip # report.flip

\* C19: the orchestrator triggers a fetch exactly when the cached history
\* of the requested symbol is absent or stale.
C19_FetchIffStale ==
    [][ChatCalled => (report'.fetched <=> ~CacheHit(Db, report'.symbol, "5d", FALSE))]_vars
====
